---- MODULE Spec2Model ----
(***************************************************************************)
(* pl::BasicStringView<char> (include/pl/string_view.hpp) and the smaller   *)
(* components of the library.                                              *)
(*                                                                         *)
(* Memory is a map from addresses to characters.  Address EmptyString      *)
(* holds the static "" of detail::empty_string; the addresses              *)
(* BufBegin..MemEnd are one caller-owned character array whose last        *)
(* element is the terminator, every other element being arbitrary (so the  *)
(* array may hold several null-terminated strings back to back).           *)
(* A view is the pair of its two members, m_data and m_size.               *)
(*                                                                         *)
(*   Spec      the life of the view objects: default construction, then    *)
(*             any sequence of constructions (assignments of a freshly     *)
(*             constructed view), copies, remove_prefix, swap and compare. *)
(*   SpecCall  one member-function call on views that were constructed     *)
(*             from arbitrary pointers into the memory.                    *)
(*   SpecOperator      one relational operator or operator<< on views.     *)
(*   SpecIterate       one iteration over a view, forward or reverse.      *)
(*   SpecRemovePrefix  remove_prefix called again and again.               *)
(*   SpecThreads       two threads working on their own views of one       *)
(*                     array, member access by member access.              *)
(*                                                                         *)
(* The other components of the library:                                    *)
(*   SpecThen, SpecThenFair  pl::thd::then (include/pl/thd/then.hpp).      *)
(*   SpecHex   pl::PrintBytesAsHex (include/pl/print_bytes_as_hex.hpp).    *)
(*   SpecMask  PL_ENABLE_BITMASK_OPERATORS (include/pl/bitmask.hpp).       *)
(*   SpecEach  pl::forEachArgument (include/pl/for_each_argument.hpp).     *)
(***************************************************************************)
EXTENDS Integers, Sequences, FiniteSets

\* the string views: the memory, the view objects and the last call
VARIABLES mem, views, last

\* the other components of the library, each with a state of its own:
\* the task launched by pl::thd::then, the stream PrintBytesAsHex is
\* printed to, the operands of the bitmask operators and the calls made
\* by forEachArgument
VARIABLES async, stream, mask, each

vars == <<mem, views, last, async, stream, mask, each>>

string_view_vars == <<mem, views, last>>

other_vars == <<async, stream, mask, each>>

\* a component that takes no part in a specification
Unused == "unused"

OtherInit ==
    /\ async = Unused
    /\ stream = Unused
    /\ mask = Unused
    /\ each = Unused

\* ---------------------------------------------------------------- bounds
BufLen == 3
MaxChar == 2

\* ---------------------------------------------------------------- memory
EmptyString == 1
BufBegin == EmptyString + 1
MemEnd == BufBegin + BufLen
Addresses == EmptyString..MemEnd
Chars == 0..MaxChar
\* the view objects of the program; every operation involves at most two
\* views, so the operations are applied to the views in Actors and the
\* remaining view stands for any other view object
ViewIds == {1, 2, 3}
Actors == {1, 2}
Sizes == 0..(BufLen + 1)

Memory ==
    {m \in [Addresses -> Chars] : m[EmptyString] = 0 /\ m[MemEnd] = 0}

\* the array object an address lies in: its last address
ObjectEnd(p) == IF p = EmptyString THEN EmptyString ELSE MemEnd

Min(a, b) == IF a < b THEN a ELSE b

\* ------------------------------------------------- std::char_traits<char>
RECURSIVE length(_)
length(string) ==
    IF mem[string] = 0 THEN 0 ELSE 1 + length(string + 1)

\* only the sign of the result is specified; -1 and 1 stand for the
\* negative and the positive results
RECURSIVE traits_compare(_, _, _)
traits_compare(s1, s2, count) ==
    IF count = 0 THEN 0
    ELSE IF mem[s1] < mem[s2] THEN -1
    ELSE IF mem[s2] < mem[s1] THEN 1
    ELSE traits_compare(s1 + 1, s2 + 1, count - 1)

\* ----------------------------------------------- construction sources
\* a std::basic_string object: its buffer and its size; the standard
\* guarantees data()[size()] == CharT()
StringObjects == [data : Addresses, size : Sizes]

Strings ==
    {s \in StringObjects :
        /\ s.data + s.size <= ObjectEnd(s.data)
        /\ mem[s.data + s.size] = 0}

\* an array object const value_type (&)[Size] that lies in the memory
Arrays ==
    {a \in [array : Addresses, Size : 1..(BufLen + 1)] :
        a.array + a.Size - 1 <= ObjectEnd(a.array)}

NoEmbeddedNull(string, size) ==
    \A i \in 0..(size - 1) : mem[string + i] # 0

\* ------------------------------------------------------- BasicStringView
View(d, s) == [data |-> d, size |-> s]

\* mutant: the size counts the terminator of the empty string
ctor_default_sized == View(EmptyString, 1)

ctor_default == View(EmptyString, 0)

\* mutant: the length is taken one short
ctor_pointer_short(string) ==
    View(string, IF length(string) > 0 THEN length(string) - 1 ELSE 0)

ctor_pointer(string) == View(string, length(string))

ctor_string(string) == View(string.data, string.size)

\* mutant: the size counts the array's terminator
ctor_array_whole(array, Size) == View(array, Size)

\* mutant: the size is found by scanning for the terminator
ctor_array_scanned(array, Size) == View(array, length(array))

ctor_array(array, Size) == View(array, Size - 1)

ctor_pointer_size(string, size) == View(string, size)

data(self) == self.data

size(self) == self.size

empty(self) == size(self) = 0

cbegin(self) == data(self)

begin(self) == cbegin(self)

cend(self) == cbegin(self) + size(self)

end(self) == cend(self)

\* std::reverse_iterator over const_pointer: it holds the base iterator,
\* dereferences to the element before the base, and ++ moves the base back
reverse_iterator(base) == [base |-> base]

reverse_deref(it) == mem[it.base - 1]

reverse_next(it) == reverse_iterator(it.base - 1)

\* mutant: the reverse range starts where it ends
crbegin_at_begin(self) == reverse_iterator(cbegin(self))

crbegin(self) == reverse_iterator(cend(self))

rbegin(self) == crbegin(self)

crend(self) == reverse_iterator(cbegin(self))

rend(self) == crend(self)

\* the characters a loop "for (it = first; it != lst; ++it)" reads; a loop
\* that runs past MaxSteps increments has left the array
MaxSteps == BufLen + 1

RECURSIVE visit(_, _, _)
visit(first, lst, steps) ==
    IF first = lst \/ steps = 0
    THEN << >>
    ELSE <<mem[first]>> \o visit(first + 1, lst, steps - 1)

RECURSIVE reverse_visit(_, _, _)
reverse_visit(first, lst, steps) ==
    IF first = lst \/ steps = 0
    THEN << >>
    ELSE <<reverse_deref(first)>>
         \o reverse_visit(reverse_next(first), lst, steps - 1)

\* operator[]
index(self, position) == mem[data(self) + position]

front(self) == index(self, 0)

back(self) == index(self, size(self) - 1)

\* Traits::eq
traits_eq(c1, c2) == c1 = c2

\* mutant: the bounds check rejects position == size()
at_ge(self, position) ==
    IF position >= size(self)
    THEN [threw |-> TRUE, value |-> 0]
    ELSE [threw |-> FALSE, value |-> index(self, position)]

at(self, position) ==
    IF position > size(self)
    THEN [threw |-> TRUE, value |-> 0]
    ELSE [threw |-> FALSE, value |-> index(self, position)]

\* mutant: the start moves forward but the size is left as it was
remove_prefix_keep_size(self, charactersToRemove) ==
    View(data(self) + Min(charactersToRemove, size(self)), size(self))

\* mutant: m_data is not advanced
remove_prefix_keep_data(self, charactersToRemove) ==
    LET n == IF charactersToRemove > size(self)
             THEN size(self)
             ELSE charactersToRemove
    IN  View(self.data, self.size - n)

\* mutant: charactersToRemove is not clamped to size()
remove_prefix_no_clamp(self, charactersToRemove) ==
    View(self.data + charactersToRemove, self.size - charactersToRemove)

remove_prefix(self, charactersToRemove) ==
    LET n == IF charactersToRemove > size(self)
             THEN size(self)
             ELSE charactersToRemove
    IN  View(self.data + n, self.size - n)

\* mutant: the sizes are not exchanged
swap_data_only(self, other) ==
    LET pointer == self.data
    IN  <<View(other.data, self.size), View(pointer, other.size)>>

\* the pair <<*this, other>> after the exchange
swap(self, other) ==
    LET pointer == self.data
        sz == self.size
    IN  <<View(other.data, other.size), View(pointer, sz)>>

\* std::basic_string(first, last, allocator): the characters of the range
\* [first, lst)
string_from_range(first, lst) ==
    [i \in 1..(lst - first) |-> mem[first + i - 1]]

\* mutant: the last character of the view is left out
to_string_short(self) == string_from_range(begin(self), end(self) - 1)

to_string(self) == string_from_range(begin(self), end(self))

\* the buffer the new std::basic_string owns: fresh storage behind the
\* memory, holding the characters and the terminator
HeapBegin == MemEnd + 1

\* mutant: the string is built in place, at the start of the array
string_object_in_place(chars) ==
    [data |-> BufBegin, size |-> Len(chars)]

string_object(chars) == [data |-> HeapBegin, size |-> Len(chars)]

\* the memory once the string object for chars is built
store_string(chars) ==
    LET string == string_object(chars)
        buffer == string.data..(string.data + string.size)
    IN  [a \in DOMAIN mem \cup buffer |->
            IF a \in buffer
            THEN IF a - string.data < string.size
                 THEN chars[a - string.data + 1]
                 ELSE 0
            ELSE mem[a]]

\* the free function swap(first, second)
swap_free(first, second) == swap(first, second)

\* mutant: on an equal common prefix the shorter view is the greater one
compare_longer_first(self, other) ==
    LET len == Min(size(self), size(other))
        result == traits_compare(data(self), data(other), len)
    IN  IF result = 0
        THEN IF size(self) = size(other) THEN 0
             ELSE IF size(self) < size(other) THEN 1 ELSE -1
        ELSE result

\* mutant: equal sizes are not told from a longer view
compare_no_equal(self, other) ==
    LET len == Min(size(self), size(other))
        result == traits_compare(data(self), data(other), len)
    IN  IF result = 0
        THEN IF size(self) < size(other) THEN -1 ELSE 1
        ELSE result

\* mutant: different sizes always give a negative result
compare_sizes_negative(self, other) ==
    LET len == Min(size(self), size(other))
        result == traits_compare(data(self), data(other), len)
    IN  IF result = 0
        THEN IF size(self) = size(other) THEN 0 ELSE -1
        ELSE result

\* mutant: the sizes do not break the tie of an equal common prefix
compare_no_tiebreak(self, other) ==
    LET len == Min(size(self), size(other))
    IN  traits_compare(data(self), data(other), len)

compare(self, other) ==
    LET len == Min(size(self), size(other))
        result == traits_compare(data(self), data(other), len)
    IN  IF result = 0
        THEN IF size(self) = size(other) THEN 0
             ELSE IF size(self) < size(other) THEN -1 ELSE 1
        ELSE result

\* mutant: an empty view is not ruled out
starts_with_char_unguarded(self, character) ==
    traits_eq(character, front(self))

\* starts_with(value_type)
starts_with_char(self, character) ==
    ~empty(self) /\ traits_eq(character, front(self))

\* mutant: the view must be strictly longer than the prefix
starts_with_strict(self, stringView) ==
    /\ size(self) > size(stringView)
    /\ traits_compare(data(self), data(stringView), size(stringView)) = 0

starts_with(self, stringView) ==
    /\ size(self) >= size(stringView)
    /\ traits_compare(data(self), data(stringView), size(stringView)) = 0

\* ends_with(value_type)
ends_with_char(self, character) ==
    ~empty(self) /\ traits_eq(character, back(self))

\* mutant: the comparison starts at data() instead of at the suffix
ends_with_from_start(self, stringView) ==
    /\ size(self) >= size(stringView)
    /\ traits_compare(data(self), data(stringView), size(stringView)) = 0

ends_with(self, stringView) ==
    /\ size(self) >= size(stringView)
    /\ traits_compare(data(self) + size(self) - size(stringView),
                      data(stringView), size(stringView)) = 0

\* ------------------------------------------------------------ call record
\* no view: the null pointer
\* ------------------------------------------------ relational operators
operator_eq(x, y) == compare(x, y) = 0

operator_eq_view_string(x, y) == operator_eq(x, ctor_string(y))

operator_eq_string_view(x, y) == operator_eq(ctor_string(x), y)

operator_eq_view_pointer(x, y) == operator_eq(x, ctor_pointer(y))

operator_eq_pointer_view(x, y) == operator_eq(ctor_pointer(x), y)

operator_ne(x, y) == ~operator_eq(x, y)

operator_ne_view_string(x, y) == operator_ne(x, ctor_string(y))

operator_ne_string_view(x, y) == operator_ne(ctor_string(x), y)

operator_ne_view_pointer(x, y) == operator_ne(x, ctor_pointer(y))

operator_ne_pointer_view(x, y) == operator_ne(ctor_pointer(x), y)

operator_lt(x, y) == compare(x, y) < 0

operator_lt_view_string(x, y) == operator_lt(x, ctor_string(y))

operator_lt_string_view(x, y) == operator_lt(ctor_string(x), y)

operator_lt_view_pointer(x, y) == operator_lt(x, ctor_pointer(y))

operator_lt_pointer_view(x, y) == operator_lt(ctor_pointer(x), y)

operator_gt(x, y) == compare(x, y) > 0

operator_gt_view_string(x, y) == operator_gt(x, ctor_string(y))

operator_gt_string_view(x, y) == operator_gt(ctor_string(x), y)

operator_gt_view_pointer(x, y) == operator_gt(x, ctor_pointer(y))

operator_gt_pointer_view(x, y) == operator_gt(ctor_pointer(x), y)

\* mutant: x <= y is decided as x < y
operator_le_strict(x, y) == compare(x, y) < 0

operator_le(x, y) == compare(x, y) <= 0

operator_le_view_string(x, y) == operator_le(x, ctor_string(y))

operator_le_string_view(x, y) == operator_le(ctor_string(x), y)

operator_le_view_pointer(x, y) == operator_le(x, ctor_pointer(y))

operator_le_pointer_view(x, y) == operator_le(ctor_pointer(x), y)

operator_ge(x, y) == compare(x, y) >= 0

operator_ge_view_string(x, y) == operator_ge(x, ctor_string(y))

operator_ge_string_view(x, y) == operator_ge(ctor_string(x), y)

operator_ge_view_pointer(x, y) == operator_ge(x, ctor_pointer(y))

operator_ge_pointer_view(x, y) == operator_ge(ctor_pointer(x), y)

\* std::basic_ostream::write on a stream in good state whose sink accepts
\* every character: the count characters at s follow, unformatted, what
\* the stream (the sequence of characters written so far) already holds
write(os, s, count) == os \o string_from_range(s, s + count)

\* mutant: the terminator is written too
operator_out_terminated(os, string) ==
    write(os, data(string), size(string) + 1)

operator_out(os, string) == write(os, data(string), size(string))

Relations == {"eq", "ne", "lt", "gt", "le", "ge"}
Forms == {"view_view", "view_string", "string_view", "view_pointer",
          "pointer_view"}

\* the std::basic_string with the characters of a view
string_of(view) == [data |-> data(view), size |-> size(view)]

\* the operator for rel applied to the operands of the form that denote
\* the characters of the views a and b
apply(rel, form, a, b) ==
    CASE rel = "eq" /\ form = "view_view" ->
            operator_eq(a, b)
      [] rel = "eq" /\ form = "view_string" ->
            operator_eq_view_string(a, string_of(b))
      [] rel = "eq" /\ form = "string_view" ->
            operator_eq_string_view(string_of(a), b)
      [] rel = "eq" /\ form = "view_pointer" ->
            operator_eq_view_pointer(a, data(b))
      [] rel = "eq" /\ form = "pointer_view" ->
            operator_eq_pointer_view(data(a), b)
      [] rel = "ne" /\ form = "view_view" ->
            operator_ne(a, b)
      [] rel = "ne" /\ form = "view_string" ->
            operator_ne_view_string(a, string_of(b))
      [] rel = "ne" /\ form = "string_view" ->
            operator_ne_string_view(string_of(a), b)
      [] rel = "ne" /\ form = "view_pointer" ->
            operator_ne_view_pointer(a, data(b))
      [] rel = "ne" /\ form = "pointer_view" ->
            operator_ne_pointer_view(data(a), b)
      [] rel = "lt" /\ form = "view_view" ->
            operator_lt(a, b)
      [] rel = "lt" /\ form = "view_string" ->
            operator_lt_view_string(a, string_of(b))
      [] rel = "lt" /\ form = "string_view" ->
            operator_lt_string_view(string_of(a), b)
      [] rel = "lt" /\ form = "view_pointer" ->
            operator_lt_view_pointer(a, data(b))
      [] rel = "lt" /\ form = "pointer_view" ->
            operator_lt_pointer_view(data(a), b)
      [] rel = "gt" /\ form = "view_view" ->
            operator_gt(a, b)
      [] rel = "gt" /\ form = "view_string" ->
            operator_gt_view_string(a, string_of(b))
      [] rel = "gt" /\ form = "string_view" ->
            operator_gt_string_view(string_of(a), b)
      [] rel = "gt" /\ form = "view_pointer" ->
            operator_gt_view_pointer(a, data(b))
      [] rel = "gt" /\ form = "pointer_view" ->
            operator_gt_pointer_view(data(a), b)
      [] rel = "le" /\ form = "view_view" ->
            operator_le(a, b)
      [] rel = "le" /\ form = "view_string" ->
            operator_le_view_string(a, string_of(b))
      [] rel = "le" /\ form = "string_view" ->
            operator_le_string_view(string_of(a), b)
      [] rel = "le" /\ form = "view_pointer" ->
            operator_le_view_pointer(a, data(b))
      [] rel = "le" /\ form = "pointer_view" ->
            operator_le_pointer_view(data(a), b)
      [] rel = "ge" /\ form = "view_view" ->
            operator_ge(a, b)
      [] rel = "ge" /\ form = "view_string" ->
            operator_ge_view_string(a, string_of(b))
      [] rel = "ge" /\ form = "string_view" ->
            operator_ge_string_view(string_of(a), b)
      [] rel = "ge" /\ form = "view_pointer" ->
            operator_ge_view_pointer(a, data(b))
      [] rel = "ge" /\ form = "pointer_view" ->
            operator_ge_pointer_view(data(a), b)

NoView == View(0, 0)

Call(op, v, w, arg, pre, ret, threw) ==
    [op |-> op, v |-> v, w |-> w, arg |-> arg, pre |-> pre, ret |-> ret,
     threw |-> threw]

Step(op, v) == Call(op, v, 0, 0, NoView, 0, FALSE)

\* ------------------------------------------------------------------ Spec
Init ==
    /\ mem \in Memory
    /\ views = [v \in ViewIds |-> ctor_default]
    /\ last = Step("ctor_default", 0)
    /\ OtherInit

ConstructDefault(v) ==
    /\ views' = [views EXCEPT ![v] = ctor_default]
    /\ last' = Step("ctor_default", v)
    /\ UNCHANGED mem
    /\ UNCHANGED other_vars

ConstructPointer(v, string) ==
    /\ views' = [views EXCEPT ![v] = ctor_pointer(string)]
    /\ last' = Step("ctor_pointer", v)
    /\ UNCHANGED mem
    /\ UNCHANGED other_vars

\* \warning: the string may not contain embedded null-characters
ConstructString(v, string) ==
    /\ string \in Strings
    /\ NoEmbeddedNull(string.data, string.size)
    /\ views' = [views EXCEPT ![v] = ctor_string(string)]
    /\ last' = Step("ctor_string", v)
    /\ UNCHANGED mem
    /\ UNCHANGED other_vars

\* \warning: the array must contain a null-terminated string and no
\* embedded null characters
ConstructArray(v, a) ==
    /\ mem[a.array + a.Size - 1] = 0
    /\ NoEmbeddedNull(a.array, a.Size - 1)
    /\ views' = [views EXCEPT ![v] = ctor_array(a.array, a.Size)]
    /\ last' = Step("ctor_array", v)
    /\ UNCHANGED mem
    /\ UNCHANGED other_vars

\* \param size: must be the same as calling Traits::length(string)
ConstructPointerSize(v, string, sz) ==
    /\ sz = length(string)
    /\ views' = [views EXCEPT ![v] = ctor_pointer_size(string, sz)]
    /\ last' = Step("ctor_pointer_size", v)
    /\ UNCHANGED mem
    /\ UNCHANGED other_vars

\* copy constructor and copy assignment
Copy(v, w) ==
    /\ views' = [views EXCEPT ![v] = views[w]]
    /\ last' = Step("copy", v)
    /\ UNCHANGED mem
    /\ UNCHANGED other_vars

RemovePrefix(v, charactersToRemove) ==
    /\ views' = [views EXCEPT ![v] = remove_prefix(views[v], charactersToRemove)]
    /\ last' = Step("remove_prefix", v)
    /\ UNCHANGED mem
    /\ UNCHANGED other_vars

Swap(v, w) ==
    /\ views' = [views EXCEPT ![v] = swap(views[v], views[w])[1],
                              ![w] = swap(views[v], views[w])[2]]
    /\ last' = Step("swap", v)
    /\ UNCHANGED mem
    /\ UNCHANGED other_vars

Compare(v, w) ==
    /\ last' = Call("compare", v, w, 0, NoView,
                    compare(views[v], views[w]), FALSE)
    /\ UNCHANGED <<mem, views>>
    /\ UNCHANGED other_vars

Next ==
    \/ \E v \in Actors : ConstructDefault(v)
    \/ \E v \in Actors, p \in Addresses : ConstructPointer(v, p)
    \/ \E v \in Actors, str \in StringObjects : ConstructString(v, str)
    \/ \E v \in Actors, a \in Arrays : ConstructArray(v, a)
    \/ \E v \in Actors, p \in Addresses, n \in Sizes :
          ConstructPointerSize(v, p, n)
    \/ \E v, w \in Actors : Copy(v, w)
    \/ \E v \in Actors, k \in Sizes : RemovePrefix(v, k)
    \/ \E v, w \in Actors : Swap(v, w)
    \/ \E v, w \in Actors : Compare(v, w)

Spec == Init /\ [][Next]_vars

\* -------------------------------------------------------------- SpecCall
\* the views as constructed from arbitrary null-terminated sources
InitCall ==
    /\ mem \in Memory
    /\ views \in [ViewIds -> {ctor_default} \cup
                             {ctor_pointer(p) : p \in Addresses}]
    /\ last = Step("none", 0)
    /\ OtherInit

\* each behaviour of SpecCall makes one call
NoCallYet == last.op = "none"

CallConstructPointer(v, string) ==
    /\ NoCallYet
    /\ views' = [views EXCEPT ![v] = ctor_pointer(string)]
    /\ last' = Call("ctor_pointer", v, 0, string, views[v], 0, FALSE)
    /\ UNCHANGED mem
    /\ UNCHANGED other_vars

CallRemovePrefix(v, charactersToRemove) ==
    /\ NoCallYet
    /\ views' = [views EXCEPT ![v] = remove_prefix(views[v], charactersToRemove)]
    /\ last' = Call("remove_prefix", v, 0, charactersToRemove, views[v], 0,
                    FALSE)
    /\ UNCHANGED mem
    /\ UNCHANGED other_vars

CallCompare(v, w) ==
    /\ NoCallYet
    /\ last' = Call("compare", v, w, 0, views[v],
                    compare(views[v], views[w]), FALSE)
    /\ UNCHANGED <<mem, views>>
    /\ UNCHANGED other_vars

CallStartsWith(v, w) ==
    /\ NoCallYet
    /\ last' = Call("starts_with", v, w, 0, views[v],
                    starts_with(views[v], views[w]), FALSE)
    /\ UNCHANGED <<mem, views>>
    /\ UNCHANGED other_vars

CallEndsWith(v, w) ==
    /\ NoCallYet
    /\ last' = Call("ends_with", v, w, 0, views[v],
                    ends_with(views[v], views[w]), FALSE)
    /\ UNCHANGED <<mem, views>>
    /\ UNCHANGED other_vars

\* operator[]: a position past the end of the array the view lies in is
\* undefined behaviour, any character may come back
CallIndex(v, position) ==
    /\ NoCallYet
    /\ \E c \in Chars :
          /\ data(views[v]) + position <= ObjectEnd(data(views[v]))
                => c = index(views[v], position)
          /\ last' = Call("index", v, 0, position, views[v], c, FALSE)
    /\ UNCHANGED <<mem, views>>
    /\ UNCHANGED other_vars

CallAt(v, position) ==
    /\ NoCallYet
    /\ last' = Call("at", v, 0, position, views[v],
                    at(views[v], position).value,
                    at(views[v], position).threw)
    /\ UNCHANGED <<mem, views>>
    /\ UNCHANGED other_vars

\* arg keeps the views as they were before the call
CallSwap(v, w) ==
    /\ NoCallYet
    /\ views' = [views EXCEPT ![v] = swap(views[v], views[w])[1],
                              ![w] = swap(views[v], views[w])[2]]
    /\ last' = Call("swap", v, w, views, views[v], 0, FALSE)
    /\ UNCHANGED mem
    /\ UNCHANGED other_vars

CallSwapFree(v, w) ==
    /\ NoCallYet
    /\ views' = [views EXCEPT ![v] = swap_free(views[v], views[w])[1],
                              ![w] = swap_free(views[v], views[w])[2]]
    /\ last' = Call("swap_free", v, w, views, views[v], 0, FALSE)
    /\ UNCHANGED mem
    /\ UNCHANGED other_vars

CallConstructDefault(v) ==
    /\ NoCallYet
    /\ views' = [views EXCEPT ![v] = ctor_default]
    /\ last' = Call("ctor_default", v, 0, 0, views[v], 0, FALSE)
    /\ UNCHANGED mem
    /\ UNCHANGED other_vars

\* ret is the std::basic_string object returned
CallToString(v) ==
    /\ NoCallYet
    /\ mem' = store_string(to_string(views[v]))
    /\ last' = Call("to_string", v, 0, 0, views[v],
                    string_object(to_string(views[v])), FALSE)
    /\ UNCHANGED views
    /\ UNCHANGED other_vars

CallStartsWithChar(v, character) ==
    /\ NoCallYet
    /\ last' = Call("starts_with_char", v, 0, character, views[v],
                    starts_with_char(views[v], character), FALSE)
    /\ UNCHANGED <<mem, views>>
    /\ UNCHANGED other_vars

CallEndsWithChar(v, character) ==
    /\ NoCallYet
    /\ last' = Call("ends_with_char", v, 0, character, views[v],
                    ends_with_char(views[v], character), FALSE)
    /\ UNCHANGED <<mem, views>>
    /\ UNCHANGED other_vars

\* the constructor itself reads no element of the array: it is called here
\* with arrays of any contents
CallConstructArray(v, a) ==
    /\ NoCallYet
    /\ views' = [views EXCEPT ![v] = ctor_array(a.array, a.Size)]
    /\ last' = Call("ctor_array", v, 0, a, views[v], 0, FALSE)
    /\ UNCHANGED mem
    /\ UNCHANGED other_vars

\* copy construction and copy assignment of view v from view w
CallCopy(v, w) ==
    /\ NoCallYet
    /\ views' = [views EXCEPT ![v] = views[w]]
    /\ last' = Call("copy", v, w, 0, views[v], 0, FALSE)
    /\ UNCHANGED mem
    /\ UNCHANGED other_vars

\* begin() and end(): the bounds of an iteration over the view
CallIterate(v) ==
    /\ NoCallYet
    /\ last' = Call("iterate", v, 0, 0, views[v],
                    <<begin(views[v]), end(views[v])>>, FALSE)
    /\ UNCHANGED <<mem, views>>
    /\ UNCHANGED other_vars

NextCall ==
    \/ \E v \in Actors, p \in Addresses : CallConstructPointer(v, p)
    \/ \E v \in Actors, k \in Sizes : CallRemovePrefix(v, k)
    \/ \E v, w \in Actors : CallCompare(v, w)
    \/ \E v, w \in Actors : CallStartsWith(v, w)
    \/ \E v, w \in Actors : CallEndsWith(v, w)
    \/ \E v \in Actors, n \in Sizes : CallIndex(v, n)
    \/ \E v \in Actors, n \in Sizes : CallAt(v, n)
    \/ \E v, w \in Actors : CallSwap(v, w)
    \/ \E v, w \in Actors : CallSwapFree(v, w)
    \/ \E v \in Actors : CallConstructDefault(v)
    \/ \E v \in Actors : CallToString(v)
    \/ \E v \in Actors, c \in Chars : CallStartsWithChar(v, c)
    \/ \E v \in Actors, c \in Chars : CallEndsWithChar(v, c)
    \/ \E v \in Actors, a \in Arrays : CallConstructArray(v, a)
    \/ \E v, w \in Actors : CallCopy(v, w)
    \/ \E v \in Actors : CallIterate(v)

SpecCall == InitCall /\ [][NextCall]_vars

\* ---------------------------------- one relational operator per behaviour
\* rel applied in the given form to operands denoting the characters of
\* views v and w: the view itself, a std::basic_string holding them, or a
\* pointer to them
CallOperator(rel, form, v, w) ==
    /\ NoCallYet
    /\ last' = Call("operator", v, w, <<rel, form>>, views[v],
                    apply(rel, form, views[v], views[w]), FALSE)
    /\ UNCHANGED <<mem, views>>
    /\ UNCHANGED other_vars

\* the streams a view is written to: a fresh one and one already written to
Streams == {<< >>, <<MaxChar>>, <<0, MaxChar>>}

CallOperatorOut(os, v) ==
    /\ NoCallYet
    /\ last' = Call("operator_out", v, 0, os, views[v],
                    operator_out(os, views[v]), FALSE)
    /\ UNCHANGED <<mem, views>>
    /\ UNCHANGED other_vars

NextOperator ==
    \/ \E rel \in Relations, form \in Forms, v, w \in Actors :
          CallOperator(rel, form, v, w)
    \/ \E os \in Streams, v \in Actors : CallOperatorOut(os, v)

\* the operands are the views of Actors, each constructed from a string in
\* memory or default-constructed; the remaining view is not an operand
InitOperator ==
    /\ mem \in Memory
    /\ views \in {[v \in ViewIds |-> IF v \in Actors THEN f[v]
                                                    ELSE ctor_default] :
                     f \in [Actors -> {ctor_default} \cup
                                      {ctor_pointer(p) : p \in Addresses}]}
    /\ last = Step("none", 0)
    /\ OtherInit

SpecOperator == InitOperator /\ [][NextOperator]_vars

\* ------------------------------------------- one iteration per behaviour
\* for (auto it = v.begin(); it != v.end(); ++it) read *it
CallForward(v) ==
    /\ NoCallYet
    /\ last' = Call("forward", v, 0, end(views[v]) - begin(views[v]),
                    views[v],
                    visit(begin(views[v]), end(views[v]), MaxSteps), FALSE)
    /\ UNCHANGED <<mem, views>>
    /\ UNCHANGED other_vars

\* for (auto it = v.rbegin(); it != v.rend(); ++it) read *it
CallReverse(v) ==
    /\ NoCallYet
    /\ last' = Call("reverse", v, 0,
                    rbegin(views[v]).base - rend(views[v]).base, views[v],
                    reverse_visit(rbegin(views[v]), rend(views[v]), MaxSteps),
                    FALSE)
    /\ UNCHANGED <<mem, views>>
    /\ UNCHANGED other_vars

NextIterate ==
    \/ \E v \in ViewIds : CallForward(v)
    \/ \E v \in ViewIds : CallReverse(v)

SpecIterate == InitCall /\ [][NextIterate]_vars

\* ------------------------------------ remove_prefix called again and again
\* the calls made in one behaviour are counted up to MaxCalls
MaxCalls == 3

RemovePrefixAgain(v, charactersToRemove) ==
    /\ last.op \in {"none", "remove_prefix"}
    /\ last.ret < MaxCalls
    /\ views' = [views EXCEPT ![v] = remove_prefix(views[v], charactersToRemove)]
    /\ last' = Call("remove_prefix", v, 0, charactersToRemove, views[v],
                    last.ret + 1, FALSE)
    /\ UNCHANGED mem
    /\ UNCHANGED other_vars

NextRemovePrefix ==
    \E v \in Actors, k \in Sizes : RemovePrefixAgain(v, k)

SpecRemovePrefix == InitCall /\ [][NextRemovePrefix]_vars

\* ------------------------------------------- threads sharing one buffer
\* Each thread owns two view objects; all views start as views of the
\* null-terminated string at the start of the same array.  A thread runs one member function after the
\* other, and each read or write of m_data or m_size is a step of its own,
\* so that the steps of different threads interleave.
Threads == {1, 2}
Own == {1, 2}

\* mutant: m_data and m_size are shared by the objects of all threads
object_shared(t, k) == <<1, k>>

\* view object k of thread t, with its own m_data and m_size
object(t, k) == <<t, k>>

Local(t) == last.thread[t]

SetLocal(t, l) == last' = [last EXCEPT !.thread[t] = l]

\* the call is over: the thread is ready for its next call
Return(t, ret) ==
    [Local(t) EXCEPT !.pc = "idle", !.self = 0, !.other = 0,
                     !.charactersToRemove = 0, !.pointer = 0, !.size = 0,
                     !.ret = ret]

InitThreads ==
    /\ mem \in Memory
    /\ views = [o \in Threads \X Own |-> ctor_pointer(BufBegin)]
    /\ last = [buffer |-> mem,
               thread |-> [t \in Threads |->
                   [pc |-> "idle", self |-> 0, other |-> 0,
                    charactersToRemove |-> 0, pointer |-> 0, size |-> 0,
                    ret |-> 0, expected |-> 0,
                    alone |-> [k \in Own |-> views[<<t, k>>]]]]]
    /\ OtherInit

\* remove_prefix: if (charactersToRemove > size()) charactersToRemove = size()
RemovePrefixClamp(t, k, charactersToRemove) ==
    /\ Local(t).pc = "idle"
    /\ SetLocal(t, [Local(t) EXCEPT
            !.pc = "remove_prefix_data", !.self = k,
            !.charactersToRemove =
                Min(charactersToRemove, size(views[object(t, k)])),
            !.ret = 0, !.expected = 0,
            !.alone[k] = remove_prefix(@, charactersToRemove)])
    /\ UNCHANGED <<mem, views>>
    /\ UNCHANGED other_vars

\* m_data += charactersToRemove
RemovePrefixData(t) ==
    /\ Local(t).pc = "remove_prefix_data"
    /\ views' = [views EXCEPT ![object(t, Local(t).self)].data =
                     @ + Local(t).charactersToRemove]
    /\ SetLocal(t, [Local(t) EXCEPT !.pc = "remove_prefix_size"])
    /\ UNCHANGED mem
    /\ UNCHANGED other_vars

\* m_size -= charactersToRemove
RemovePrefixSize(t) ==
    /\ Local(t).pc = "remove_prefix_size"
    /\ views' = [views EXCEPT ![object(t, Local(t).self)].size =
                     @ - Local(t).charactersToRemove]
    /\ SetLocal(t, Return(t, 0))
    /\ UNCHANGED mem
    /\ UNCHANGED other_vars

\* swap: const const_pointer pointer = m_data
SwapPointer(t, k, j) ==
    /\ Local(t).pc = "idle"
    /\ SetLocal(t, [Local(t) EXCEPT
            !.pc = "swap_data", !.self = k, !.other = j,
            !.pointer = views[object(t, k)].data,
            !.ret = 0, !.expected = 0,
            !.alone = [Local(t).alone EXCEPT
                          ![k] = swap(Local(t).alone[k], Local(t).alone[j])[1],
                          ![j] = swap(Local(t).alone[k], Local(t).alone[j])[2]]])
    /\ UNCHANGED <<mem, views>>
    /\ UNCHANGED other_vars

\* m_data = other.m_data
SwapData(t) ==
    /\ Local(t).pc = "swap_data"
    /\ views' = [views EXCEPT ![object(t, Local(t).self)].data =
                     views[object(t, Local(t).other)].data]
    /\ SetLocal(t, [Local(t) EXCEPT !.pc = "swap_other_data"])
    /\ UNCHANGED mem
    /\ UNCHANGED other_vars

\* other.m_data = pointer
SwapOtherData(t) ==
    /\ Local(t).pc = "swap_other_data"
    /\ views' = [views EXCEPT ![object(t, Local(t).other)].data =
                     Local(t).pointer]
    /\ SetLocal(t, [Local(t) EXCEPT !.pc = "swap_size_local"])
    /\ UNCHANGED mem
    /\ UNCHANGED other_vars

\* const size_type size = m_size
SwapSizeLocal(t) ==
    /\ Local(t).pc = "swap_size_local"
    /\ SetLocal(t, [Local(t) EXCEPT
            !.pc = "swap_size",
            !.size = views[object(t, Local(t).self)].size])
    /\ UNCHANGED <<mem, views>>
    /\ UNCHANGED other_vars

\* m_size = other.m_size
SwapSize(t) ==
    /\ Local(t).pc = "swap_size"
    /\ views' = [views EXCEPT ![object(t, Local(t).self)].size =
                     views[object(t, Local(t).other)].size]
    /\ SetLocal(t, [Local(t) EXCEPT !.pc = "swap_other_size"])
    /\ UNCHANGED mem
    /\ UNCHANGED other_vars

\* other.m_size = size
SwapOtherSize(t) ==
    /\ Local(t).pc = "swap_other_size"
    /\ views' = [views EXCEPT ![object(t, Local(t).other)].size =
                     Local(t).size]
    /\ SetLocal(t, Return(t, 0))
    /\ UNCHANGED mem
    /\ UNCHANGED other_vars

\* compare reads m_data and m_size of both views and the characters; a
\* view that reaches past its array makes the reads undefined
ThreadCompare(t, k, j, ret) ==
    /\ Local(t).pc = "idle"
    /\ LET x == views[object(t, k)]
           y == views[object(t, j)]
       IN  IF   data(x) + size(x) <= ObjectEnd(data(x))
                /\ data(y) + size(y) <= ObjectEnd(data(y))
           THEN ret = compare(x, y)
           ELSE TRUE
    /\ SetLocal(t, [Return(t, ret) EXCEPT
            !.expected = compare(Local(t).alone[k], Local(t).alone[j])])
    /\ UNCHANGED <<mem, views>>
    /\ UNCHANGED other_vars

\* front reads m_data and the character there
ThreadFront(t, k) ==
    /\ Local(t).pc = "idle"
    /\ SetLocal(t, [Return(t, front(views[object(t, k)])) EXCEPT
            !.expected = front(Local(t).alone[k])])
    /\ UNCHANGED <<mem, views>>
    /\ UNCHANGED other_vars

NextThreads ==
    \/ \E t \in Threads, k \in Own, n \in Sizes : RemovePrefixClamp(t, k, n)
    \/ \E t \in Threads : RemovePrefixData(t)
    \/ \E t \in Threads : RemovePrefixSize(t)
    \/ \E t \in Threads, k, j \in Own : SwapPointer(t, k, j)
    \/ \E t \in Threads : SwapData(t)
    \/ \E t \in Threads : SwapOtherData(t)
    \/ \E t \in Threads : SwapSizeLocal(t)
    \/ \E t \in Threads : SwapSize(t)
    \/ \E t \in Threads : SwapOtherSize(t)
    \/ \E t \in Threads, k, j \in Own, ret \in {-1, 0, 1} :
          ThreadCompare(t, k, j, ret)
    \/ \E t \in Threads, k \in Own : ThreadFront(t, k)

SpecThreads == InitThreads /\ [][NextThreads]_vars


\* ------------------------------------------------------- pl::thd::then
\* The shared state of a std::future: not ready, or ready with a value or
\* with a stored exception.
MaxValue == 2
Values == 0..MaxValue
Exceptions == {"E1", "E2"}

NotReady == [kind |-> "none", value |-> 0, exception |-> "none"]

Value(v) == [kind |-> "value", value |-> v, exception |-> "none"]

Exception(e) == [kind |-> "exception", value |-> 0, exception |-> e]

ready(state) == state.kind # "none"

\* the continuations passed to then: one that returns its argument plus
\* one (or MaxValue for a void future), one that returns zero whatever it
\* is given, one that throws
Continuations == {"increment", "zero", "throw"}

\* pl::invoke(continuation, args...): the outcome of the call
invoke(continuation, args) ==
    CASE continuation = "throw" -> Exception("E2")
      [] continuation = "zero" -> Value(0)
      [] continuation = "increment" ->
            IF args = << >> THEN Value(MaxValue) ELSE Value(args[1] + 1)

\* then is called with a future whose state may or may not be ready yet
InitThen ==
    /\ mem = << >> /\ views = << >> /\ last = Unused
    /\ stream = Unused /\ mask = Unused /\ each = Unused
    /\ \E Ty \in {"int", "void"}, continuation \in Continuations,
          state \in {NotReady} \cup {Value(v) : v \in Values}
                   \cup {Exception(e) : e \in Exceptions} :
          /\ Ty = "void" /\ state.kind = "value" => state.value = 0
          /\ async = [Ty |-> Ty, continuation |-> continuation,
                      future |-> state, pc |-> "caller",
                      value |-> NotReady, invocations |-> << >>,
                      outcome |-> NotReady, result |-> NotReady,
                      consumer |-> NotReady]

then_unchanged == UNCHANGED <<string_view_vars, stream, mask, each>>

\* the producer of the input future (a std::promise or another task)
\* stores a value
SetValue(v) ==
    /\ ~ready(async.future)
    /\ async.Ty = "void" => v = 0
    /\ async' = [async EXCEPT !.future = Value(v)]
    /\ then_unchanged

\* the producer stores an exception
SetException(e) ==
    /\ ~ready(async.future)
    /\ async' = [async EXCEPT !.future = Exception(e)]
    /\ then_unchanged

\* then: std::async(std::launch::async, lambda, future, continuation)
\* launches the thread and returns the future of the lambda's result
Then ==
    /\ async.pc = "caller"
    /\ async' = [async EXCEPT !.pc = "thenImpl"]
    /\ then_unchanged

\* future.get() and future.wait() block until the shared state is ready
unblocked(future) == ready(future)

\* thenImpl(std::future<Ty>&, ...): future.get() returns the value or
\* rethrows the stored exception, which leaves thenImpl and the lambda and
\* becomes the outcome of the task
ThenImplGet ==
    /\ async.pc = "thenImpl" /\ async.Ty # "void"
    /\ unblocked(async.future)
    /\ async' = IF async.future.kind = "exception"
                THEN [async EXCEPT !.pc = "return", !.outcome = async.future]
                ELSE [async EXCEPT !.pc = "invoke", !.value = async.future]
    /\ then_unchanged

\* mutant: the continuation is invoked without waiting for the future
ThenImplNoWait ==
    /\ async.pc = "thenImpl" /\ async.Ty = "void"
    /\ async' = [async EXCEPT !.pc = "invoke"]
    /\ then_unchanged

\* thenImpl(std::future<void>&, ...): future.wait() returns once the state
\* is ready, whatever it holds
ThenImplWait ==
    /\ async.pc = "thenImpl" /\ async.Ty = "void"
    /\ unblocked(async.future)
    /\ async' = [async EXCEPT !.pc = "invoke"]
    /\ then_unchanged

\* return ::pl::invoke(continuation, future.get()) or
\* ::pl::invoke(continuation), on the launched thread; the call is logged
\* with the state the input future has at that moment
Invoke ==
    /\ async.pc = "invoke"
    /\ LET args == IF async.Ty = "void" THEN << >>
                                          ELSE <<async.value.value>>
       IN  async' = [async EXCEPT
               !.pc = "return",
               !.invocations = Append(@, [thread |-> "launched",
                                          args |-> args,
                                          future |-> async.future]),
               !.outcome = invoke(async.continuation, args)]
    /\ then_unchanged

\* the task ends: std::async makes the returned future ready with the
\* lambda's return value or with the exception that left it
ThenReturn ==
    /\ async.pc = "return"
    /\ async' = [async EXCEPT !.pc = "done", !.result = async.outcome]
    /\ then_unchanged

\* the consumer of the returned future: get() blocks until the state is
\* ready and hands over the value or the exception
ConsumerGet ==
    /\ async.pc # "caller"
    /\ unblocked(async.result)
    /\ ~ready(async.consumer)
    /\ async' = [async EXCEPT !.consumer = async.result]
    /\ then_unchanged

NextThen ==
    \/ \E v \in Values : SetValue(v)
    \/ \E e \in Exceptions : SetException(e)
    \/ Then
    \/ ThenImplGet
    \/ ThenImplWait
    \/ Invoke
    \/ ThenReturn
    \/ ConsumerGet

SpecThen == InitThen /\ [][NextThen]_vars

\* the launched thread is scheduled: each of its steps is taken once it
\* stays possible
SpecThenFair ==
    /\ SpecThen
    /\ WF_vars(ThenImplGet) /\ WF_vars(ThenImplWait)
    /\ WF_vars(Invoke) /\ WF_vars(ThenReturn)


\* ------------------------------------------------- pl::PrintBytesAsHex
\* The formatting state of a std::ostream: the format flags that bear on
\* the output of an unsigned integer, the fill character and the width.
Flags ==
    [uppercase : BOOLEAN, basefield : {"dec", "oct", "hex"},
     showbase : BOOLEAN, adjustfield : {"right", "left", "internal"}]

Fills == {" ", "*"}

Widths == {0, 5}

Max(a, b) == IF a > b THEN a ELSE b

\* num_put: the digits of a value in the radix of basefield, most
\* significant first, without leading zeros
Digits == <<"0", "1", "2", "3", "4", "5", "6", "7", "8", "9",
            "a", "b", "c", "d", "e", "f">>

UpperDigits == <<"0", "1", "2", "3", "4", "5", "6", "7", "8", "9",
                 "A", "B", "C", "D", "E", "F">>

radix(flags) ==
    CASE flags.basefield = "hex" -> 16
      [] flags.basefield = "oct" -> 8
      [] flags.basefield = "dec" -> 10

RECURSIVE digits(_, _)
digits(value, flags) ==
    LET digit == IF flags.uppercase
                 THEN UpperDigits[(value % radix(flags)) + 1]
                 ELSE Digits[(value % radix(flags)) + 1]
    IN  IF value < radix(flags)
        THEN <<digit>>
        ELSE Append(digits(value \div radix(flags), flags), digit)

\* the base prefix std::showbase asks for
prefix(value, flags) ==
    CASE ~flags.showbase \/ value = 0 -> << >>
      [] flags.basefield = "hex" ->
            IF flags.uppercase THEN <<"0", "X">> ELSE <<"0", "x">>
      [] flags.basefield = "oct" -> <<"0">>
      [] flags.basefield = "dec" -> << >>

padding(count, fill) == [i \in 1..count |-> fill]

\* os << value for an unsigned integer: the characters written, padded
\* with the fill character up to the width as adjustfield tells; internal
\* adjustment pads after a 0x or 0X prefix only (an unsigned value has no
\* sign, and the octal 0 counts as a digit), else before the characters
num_put(value, flags, fill, width) ==
    LET pad == padding(Max(0, width - Len(prefix(value, flags))
                                 - Len(digits(value, flags))), fill)
    IN  CASE flags.adjustfield = "left" ->
                prefix(value, flags) \o digits(value, flags) \o pad
          [] flags.adjustfield = "internal"
             /\ Len(prefix(value, flags)) = 2 ->
                prefix(value, flags) \o pad \o digits(value, flags)
          [] OTHER ->
                pad \o prefix(value, flags) \o digits(value, flags)


\* the memory to print: MaxBytes bytes at the addresses 1..MaxBytes; the
\* bytes are a few values that show a leading zero digit, letters as
\* digits and the value zero, in each of their rotations; the address 0 is
\* the null pointer
MaxBytes == 3
ByteValues == <<0, 10, 171>>
Memories ==
    {[a \in 1..MaxBytes |-> ByteValues[((a + k) % Len(ByteValues)) + 1]] :
        k \in 1..Len(ByteValues)}
Delims == {<<" ">>, << >>}

\* the state of a std::ostream and the states it reports by an exception
IoStates == SUBSET {"badbit", "failbit"}

\* what the stream buffer does with a write of characters: it takes the
\* first few of them (all of them when the write succeeds), or it takes
\* the first few of them and throws; before the write, the flush of a tied
\* stream may throw
Events == {"write", "sink_throws", "tie_throws"}

\* os.good()
good(os) == os.rdstate = {}

\* os.setstate(state): the stream after it, and whether it throws
\* std::ios_base::failure
setstate(os, state) == [os EXCEPT !.rdstate = @ \cup state]

failure(os) == os.rdstate \cap os.exceptions # {}

\* the sentry of an output on a stream that is not good: it calls
\* setstate(failbit) when the stream is bad and nothing else
sentry(os) ==
    IF "badbit" \in os.rdstate THEN setstate(os, {"failbit"}) ELSE os

\* an exception leaves the try block
caught(os, exception) == [os EXCEPT !.exception = exception, !.pc = "catch"]

\* rdbuf()->sputn(chars, Len(chars)) of which the sink takes taken
sputn(os, chars, taken) ==
    [os EXCEPT !.out = @ \o SubSeq(chars, 1, Min(taken, Len(chars)))]

\* static_cast<std::uint16_t>(dataToPrint[i]), pl::Byte being an unsigned
\* character type
Byte(value) == value % (2 ^ 16)

nibblesPerByte == 2
fillChar == "0"

\* the arguments of a construction: a null pointer with any count, or a
\* pointer into the memory with a count that stays inside it
Ranges ==
    {r \in (0..MaxBytes) \X (0..MaxBytes) :
        r[1] = 0 \/ r[1] + r[2] - 1 <= MaxBytes}

\* the members of the objects a constructor call has built
Objects ==
    {o \in [m_dataToPrint : 1..MaxBytes, m_countBytes : 1..MaxBytes,
            m_delim : Delims] :
        <<o.m_dataToPrint, o.m_countBytes>> \in Ranges}

\* PL_THROW_IF_NULL(pointer): the exception thrown, if any
PL_THROW_IF_NULL(pointer) ==
    IF pointer = 0 THEN "NullPointerException" ELSE "none"

InitHex ==
    /\ mem = << >> /\ views = << >> /\ last = Unused
    /\ async = Unused /\ mask = Unused /\ each = Unused
    /\ \E memory \in Memories, flags \in Flags,
          fill \in Fills, width \in Widths,
          rdstate \in IoStates, exceptions \in IoStates :
          stream = [pc |-> "construct", memory |-> memory,
                    rdstate |-> rdstate, exceptions |-> exceptions,
                    m_dataToPrint |-> 0, m_countBytes |-> 0,
                    m_delim |-> << >>, exception |-> "none",
                    flags |-> flags, fill |-> fill, width |-> width,
                    before |-> [flags |-> flags, fill |-> fill,
                                width |-> width],
                    saved |-> flags, i |-> 0, out |-> << >>]

hex_unchanged == UNCHANGED <<string_view_vars, async, mask, each>>

\* mutant: a count of zero is accepted
Construct_any_count(dataToPrint, countBytes, delim) ==
    /\ stream.pc = "construct"
    /\ stream' = [stream EXCEPT
            !.m_dataToPrint = dataToPrint, !.m_countBytes = countBytes,
            !.m_delim = delim,
            !.exception = PL_THROW_IF_NULL(dataToPrint),
            !.pc = IF PL_THROW_IF_NULL(dataToPrint) # "none"
                   THEN "failed" ELSE "constructed"]
    /\ hex_unchanged

\* PrintBytesAsHex(dataToPrint, countBytes, delim)
Construct(dataToPrint, countBytes, delim) ==
    /\ stream.pc = "construct"
    /\ LET exception ==
               IF PL_THROW_IF_NULL(dataToPrint) # "none"
               THEN PL_THROW_IF_NULL(dataToPrint)
               ELSE IF countBytes = 0 THEN "InvalidSizeException"
                                      ELSE "none"
       IN  stream' = [stream EXCEPT
               !.m_dataToPrint = dataToPrint, !.m_countBytes = countBytes,
               !.m_delim = delim,
               !.exception = exception,
               !.pc = IF exception # "none" THEN "failed"
                                            ELSE "constructed"]
    /\ hex_unchanged

\* the members of the object other, as the defaulted copy and move
\* operations give them to the object they build or assign to
members(other) ==
    [stream EXCEPT !.m_dataToPrint = other.m_dataToPrint,
                   !.m_countBytes = other.m_countBytes,
                   !.m_delim = other.m_delim]

\* PrintBytesAsHex(const this_type&) = default
CopyConstruct(other) ==
    /\ stream.pc = "construct"
    /\ stream' = [members(other) EXCEPT !.pc = "constructed"]
    /\ hex_unchanged

\* PrintBytesAsHex(this_type&&) = default, the object built
MoveConstruct(other) ==
    /\ stream.pc = "construct"
    /\ stream' = [members(other) EXCEPT !.pc = "constructed"]
    /\ hex_unchanged

\* operator=(const this_type&) = default
CopyAssign(other) ==
    /\ stream.pc = "constructed"
    /\ stream' = members(other)
    /\ hex_unchanged

\* operator=(this_type&&) = default, the object assigned to
MoveAssign(other) ==
    /\ stream.pc = "constructed"
    /\ stream' = members(other)
    /\ hex_unchanged

\* the object is the argument of a move construction or assignment: the
\* pointer and the count are copied from it, the delimiter is moved from
\* and left empty
MovedFrom ==
    /\ stream.pc = "constructed"
    /\ stream' = [stream EXCEPT !.m_delim = << >>]
    /\ hex_unchanged

\* where the loop "for (i; i < m_countBytes; ++i)" goes from index i
loop(i) == IF i < stream.m_countBytes THEN "byte" ELSE "restore"

\* const auto flags = os.flags(); os << std::uppercase << std::hex;
OutBegin ==
    /\ stream.pc = "constructed"
    /\ stream' = [stream EXCEPT
            !.saved = stream.flags,
            !.flags = [stream.flags EXCEPT !.uppercase = TRUE,
                                           !.basefield = "hex"],
            !.i = 0,
            !.pc = loop(0)]
    /\ hex_unchanged

\* the rest of the loop body after the output of the byte at index i
after_byte(os) ==
    [os EXCEPT !.pc = IF os.i < os.m_countBytes - 1
                      THEN "delim" ELSE loop(os.i + 1),
               !.i = IF os.i < os.m_countBytes - 1 THEN @ ELSE @ + 1]

\* os << std::setw(nibblesPerByte) << std::setfill(fillChar)
\*    << static_cast<std::uint16_t>(dataToPrint[i]);
\* setw and setfill act whatever the state of the stream is. On a stream
\* that is not good nothing is formatted, and the sentry's setstate throws
\* std::ios_base::failure when the stream is bad and exceptions() holds
\* one of its states. Else the number is formatted, the width set back to
\* zero and the characters written; a write that takes too few characters
\* or throws sets badbit, and the exception (std::ios_base::failure, or
\* the one of the sink) leaves the output when exceptions() holds badbit.
OutByte(event, taken) ==
    /\ stream.pc = "byte"
    /\ LET os == [stream EXCEPT !.width = nibblesPerByte,
                                !.fill = fillChar]
           formatted == [os EXCEPT !.width = 0]
           chars == num_put(Byte(os.memory[os.m_dataToPrint + os.i]),
                            os.flags, os.fill, os.width)
           written == sputn(formatted, chars, taken)
           short == setstate(written, {"badbit"})
       IN  stream' =
              CASE ~good(os) ->
                      IF "badbit" \in os.rdstate /\ failure(sentry(os))
                      THEN caught(sentry(os), "ios_base::failure")
                      ELSE after_byte(sentry(os))
                [] good(os) /\ event = "tie_throws" ->
                      caught(os, "exception of the tied stream")
                [] good(os) /\ event = "sink_throws" ->
                      IF "badbit" \in os.exceptions
                      THEN caught(short, "exception of the sink")
                      ELSE after_byte(short)
                [] good(os) /\ event = "write" /\ taken >= Len(chars) ->
                      after_byte(written)
                [] good(os) /\ event = "write" /\ taken < Len(chars) ->
                      IF failure(short)
                      THEN caught(short, "ios_base::failure")
                      ELSE after_byte(short)
    /\ hex_unchanged

\* os << toPrint.m_delim; then ++i and the loop test. The sentry acts as
\* for a byte. The delimiter is padded to the width (before it unless the
\* adjustment is left) and the width set back to zero unless an exception
\* was thrown inside the output; the width is zero whenever the stream is
\* good here, because the byte before was formatted.
OutDelim(event, taken) ==
    /\ stream.pc = "delim"
    /\ LET os == stream
           next(after) == [after EXCEPT !.i = @ + 1,
                                        !.pc = loop(os.i + 1)]
           pad == padding(Max(0, os.width - Len(os.m_delim)), os.fill)
           chars == IF os.flags.adjustfield = "left"
                    THEN os.m_delim \o pad ELSE pad \o os.m_delim
           written == sputn(os, chars, taken)
           short == setstate(written, {"badbit"})
       IN  stream' =
              CASE ~good(os) ->
                      IF "badbit" \in os.rdstate /\ failure(sentry(os))
                      THEN caught(sentry(os), "ios_base::failure")
                      ELSE next(sentry(os))
                [] good(os) /\ event = "tie_throws" ->
                      caught(os, "exception of the tied stream")
                [] good(os) /\ event = "sink_throws" ->
                      IF "badbit" \in os.exceptions
                      THEN caught(short, "exception of the sink")
                      ELSE next(short)
                [] good(os) /\ event = "write" /\ taken >= Len(chars) ->
                      next([written EXCEPT !.width = 0])
                [] good(os) /\ event = "write" /\ taken < Len(chars) ->
                      IF failure(short)
                      THEN caught(short, "ios_base::failure")
                      ELSE next([short EXCEPT !.width = 0])
    /\ hex_unchanged

\* mutant: the exception passes through without the flags being restored
OutCatch_no_restore ==
    /\ stream.pc = "catch"
    /\ stream' = [stream EXCEPT !.pc = "rethrown"]
    /\ hex_unchanged

\* catch (...) { os.flags(flags); throw; }
OutCatch ==
    /\ stream.pc = "catch"
    /\ stream' = [stream EXCEPT !.flags = stream.saved,
                                !.pc = "rethrown"]
    /\ hex_unchanged

\* os.flags(flags); return os;
OutReturn ==
    /\ stream.pc = "restore"
    /\ stream' = [stream EXCEPT !.flags = stream.saved, !.pc = "returned"]
    /\ hex_unchanged

NextHex ==
    \/ \E range \in Ranges, delim \in Delims :
          Construct(range[1], range[2], delim)
    \/ \E other \in Objects : CopyConstruct(other)
    \/ \E other \in Objects : MoveConstruct(other)
    \/ \E other \in Objects : CopyAssign(other)
    \/ \E other \in Objects : MoveAssign(other)
    \/ MovedFrom
    \/ OutBegin
    \/ \E event \in Events, taken \in 0..(nibblesPerByte + 2) :
          OutByte(event, taken)
    \/ \E event \in Events, taken \in 0..(nibblesPerByte + 2) :
          OutDelim(event, taken)
    \/ OutCatch
    \/ OutReturn

SpecHex == InitHex /\ [][NextHex]_vars


\* ------------------------------------------ PL_ENABLE_BITMASK_OPERATORS
\* A scoped enum over an unsigned underlying type of UnderlyingBits bits;
\* an enum value is the integer its underlying type holds.
UnderlyingBits == 3
ScopedEnum == 0..(2^UnderlyingBits - 1)

\* static_cast<Underlying>(value)
Underlying(value) == value

\* static_cast<ScopedEnum>(i): an int outside the underlying type's range
\* is reduced modulo 2^UnderlyingBits
static_cast_ScopedEnum(i) == i % (2^UnderlyingBits)

\* the built-in operators on the promoted operands (int, two's complement)
RECURSIVE bit_or(_, _)
bit_or(a, b) ==
    IF a = 0 /\ b = 0 THEN 0
    ELSE (IF a % 2 = 1 \/ b % 2 = 1 THEN 1 ELSE 0)
         + 2 * bit_or(a \div 2, b \div 2)

RECURSIVE bit_and(_, _)
bit_and(a, b) ==
    IF a = 0 \/ b = 0 THEN 0
    ELSE (IF a % 2 = 1 /\ b % 2 = 1 THEN 1 ELSE 0)
         + 2 * bit_and(a \div 2, b \div 2)

RECURSIVE bit_xor(_, _)
bit_xor(a, b) ==
    IF a = 0 /\ b = 0 THEN 0
    ELSE (IF a % 2 # b % 2 THEN 1 ELSE 0)
         + 2 * bit_xor(a \div 2, b \div 2)

bit_not(a) == -a - 1

operator_or(lhs, rhs) ==
    static_cast_ScopedEnum(bit_or(Underlying(lhs), Underlying(rhs)))

operator_and(lhs, rhs) ==
    static_cast_ScopedEnum(bit_and(Underlying(lhs), Underlying(rhs)))

operator_xor(lhs, rhs) ==
    static_cast_ScopedEnum(bit_xor(Underlying(lhs), Underlying(rhs)))

\* mutant: the complement is returned as computed in int
operator_not_promoted(lhs) == bit_not(Underlying(lhs))

operator_not(lhs) == static_cast_ScopedEnum(bit_not(Underlying(lhs)))

\* the compound assignments: <<the new value of lhs, the value returned>>
operator_or_assign(lhs, rhs) ==
    LET new == static_cast_ScopedEnum(
                   bit_or(Underlying(lhs), Underlying(rhs)))
    IN  <<new, new>>

operator_and_assign(lhs, rhs) ==
    LET new == static_cast_ScopedEnum(
                   bit_and(Underlying(lhs), Underlying(rhs)))
    IN  <<new, new>>

operator_xor_assign(lhs, rhs) ==
    LET new == static_cast_ScopedEnum(
                   bit_xor(Underlying(lhs), Underlying(rhs)))
    IN  <<new, new>>


\* a variable enm of the enum type and the last operator applied: its
\* operands, the value it returned and the name of the operator
InitMask ==
    /\ mem = << >> /\ views = << >> /\ last = Unused
    /\ async = Unused /\ stream = Unused /\ each = Unused
    /\ \E value \in ScopedEnum :
          mask = [enm |-> value, op |-> "none", lhs |-> value,
                  rhs |-> value, ret |-> value]

mask_unchanged == UNCHANGED <<string_view_vars, async, stream, each>>

Applied(op, lhs, rhs, ret) ==
    [mask EXCEPT !.op = op, !.lhs = lhs, !.rhs = rhs, !.ret = ret]

BitOr(lhs, rhs) ==
    /\ mask' = Applied("|", lhs, rhs, operator_or(lhs, rhs))
    /\ mask_unchanged

BitAnd(lhs, rhs) ==
    /\ mask' = Applied("&", lhs, rhs, operator_and(lhs, rhs))
    /\ mask_unchanged

BitXor(lhs, rhs) ==
    /\ mask' = Applied("^", lhs, rhs, operator_xor(lhs, rhs))
    /\ mask_unchanged

BitNot(lhs) ==
    /\ mask' = Applied("~", lhs, lhs, operator_not(lhs))
    /\ mask_unchanged

\* enm |= rhs
OrAssign(rhs) ==
    /\ mask' = [Applied("|=", mask.enm, rhs,
                        operator_or_assign(mask.enm, rhs)[2])
                   EXCEPT !.enm = operator_or_assign(mask.enm, rhs)[1]]
    /\ mask_unchanged

\* enm &= rhs
AndAssign(rhs) ==
    /\ mask' = [Applied("&=", mask.enm, rhs,
                        operator_and_assign(mask.enm, rhs)[2])
                   EXCEPT !.enm = operator_and_assign(mask.enm, rhs)[1]]
    /\ mask_unchanged

\* enm ^= rhs
XorAssign(rhs) ==
    /\ mask' = [Applied("^=", mask.enm, rhs,
                        operator_xor_assign(mask.enm, rhs)[2])
                   EXCEPT !.enm = operator_xor_assign(mask.enm, rhs)[1]]
    /\ mask_unchanged

NextMask ==
    \/ \E lhs, rhs \in ScopedEnum : BitOr(lhs, rhs)
    \/ \E lhs, rhs \in ScopedEnum : BitAnd(lhs, rhs)
    \/ \E lhs, rhs \in ScopedEnum : BitXor(lhs, rhs)
    \/ \E lhs \in ScopedEnum : BitNot(lhs)
    \/ \E rhs \in ScopedEnum : OrAssign(rhs)
    \/ \E rhs \in ScopedEnum : AndAssign(rhs)
    \/ \E rhs \in ScopedEnum : XorAssign(rhs)

SpecMask == InitMask /\ [][NextMask]_vars


\* ------------------------------------------------- pl::forEachArgument
\* forEachArgument(callable, args...) with up to MaxArgs arguments; the
\* events of the calls of callable are logged as they begin and end
MaxArgs == 3
ArgValues == {"a", "b", "c"}
ArgPacks == UNION {[1..n -> ArgValues] : n \in 0..MaxArgs}

InitEach ==
    /\ mem = << >> /\ views = << >> /\ last = Unused
    /\ async = Unused /\ stream = Unused /\ mask = Unused
    /\ \E args \in ArgPacks :
          each = [args |-> args, pc |-> "next", i |-> 1, log |-> << >>]

each_unchanged == UNCHANGED <<string_view_vars, async, stream, mask>>

\* mutant: the pack is expanded from its last element to its first
argument_reversed(i) == each.args[Len(each.args) + 1 - i]

\* the i-th element of the braced list { (callable(args), 0)... }, which is
\* evaluated from left to right
argument(i) == each.args[i]

\* callable(std::forward<Args>(args)) begins for the next element
InvokeBegin ==
    /\ each.pc = "next" /\ each.i <= Len(each.args)
    /\ each' = [each EXCEPT
            !.pc = "in_call",
            !.log = Append(@, [event |-> "begin", arg |-> argument(each.i)])]
    /\ each_unchanged

\* the call returns, or throws and so ends forEachArgument
InvokeEnd(throws) ==
    /\ each.pc = "in_call"
    /\ each' = IF throws
               THEN [each EXCEPT !.pc = "thrown"]
               ELSE [each EXCEPT
                        !.pc = "next", !.i = @ + 1,
                        !.log = Append(@, [event |-> "end",
                                           arg |-> argument(each.i)])]
    /\ each_unchanged

\* the list is complete: forEachArgument returns
EachReturn ==
    /\ each.pc = "next" /\ each.i > Len(each.args)
    /\ each' = [each EXCEPT !.pc = "returned"]
    /\ each_unchanged

NextEach ==
    \/ InvokeBegin
    \/ \E throws \in BOOLEAN : InvokeEnd(throws)
    \/ EachReturn

SpecEach == InitEach /\ [][NextEach]_vars


\* ================================================================ claims
\* the characters a view denotes, as a sequence
content(view) == [i \in 1..view.size |-> mem[view.data + i - 1]]

\* s is lexicographically less than t: at the first position where they
\* differ s has the smaller character, or s is a proper prefix of t
LexLess(s, t) ==
    \E i \in 0..Min(Len(s), Len(t)) :
        /\ \A j \in 1..i : s[j] = t[j]
        /\ \/ i = Len(s) /\ i < Len(t)
           \/ i < Len(s) /\ i < Len(t) /\ s[i + 1] < t[i + 1]

InMemory(view) ==
    /\ view.data \in Addresses
    /\ view.size >= 0
    /\ view.data + view.size <= ObjectEnd(view.data)

\* C1: a view constructed from a raw pointer to a null-terminated sequence
\* has data() equal to the pointer and size() equal to the number of
\* characters before the first terminator.
C1_PointerCtorSize ==
    last.op = "ctor_pointer" =>
        LET view == views[last.v]
        IN  /\ data(view) = last.arg
            /\ InMemory(view)
            /\ mem[last.arg + size(view)] = 0
            /\ \A i \in 0..(size(view) - 1) : mem[last.arg + i] # 0

\* a pointer to a string whose terminator is followed by more characters
C1_Witness ==
    /\ last.op = "ctor_pointer"
    /\ size(views[last.v]) >= 1
    /\ last.arg + size(views[last.v]) + 1 < MemEnd
    /\ mem[last.arg + size(views[last.v]) + 1] # 0

\* C2: for every view built by a constructor from a source that meets the
\* constructor's preconditions, after any sequence of constructions,
\* copies, remove_prefix and swap, v[v.size()] is the zero character.
C2_TerminatorAtSize ==
    \A v \in ViewIds :
        /\ InMemory(views[v])
        /\ index(views[v], size(views[v])) = 0

\* a view that remove_prefix has just acted on, still not empty, lying in
\* the middle of the array
C2_Witness ==
    /\ last.op = "remove_prefix"
    /\ size(views[last.v]) >= 1
    /\ data(views[last.v]) > BufBegin
    /\ data(views[last.v]) + size(views[last.v]) < MemEnd

\* C3: a.compare(b) is negative, zero or positive exactly when a's
\* characters are lexicographically less than, equal to or greater than
\* b's, the shorter view being the smaller one on an equal common prefix.
C3_CompareLexicographic ==
    last.op = "compare" =>
        LET a == content(views[last.v])
            b == content(views[last.w])
        IN  /\ last.ret < 0 <=> LexLess(a, b)
            /\ last.ret = 0 <=> a = b
            /\ last.ret > 0 <=> LexLess(b, a)

\* two views of different sizes with a common first character that differ
\* at the second one
C3_Witness ==
    /\ last.op = "compare"
    /\ last.ret < 0
    /\ size(views[last.v]) = 3
    /\ size(views[last.w]) = 2
    /\ index(views[last.v], 0) = index(views[last.w], 0)
    /\ index(views[last.v], 1) < index(views[last.w], 1)

\* C4: v.compare(v) is 0 for every view, the default-constructed one and
\* one shortened by remove_prefix included.
C4_CompareReflexive ==
    /\ \A v \in ViewIds : compare(views[v], views[v]) = 0
    /\ last.op = "compare" /\ last.v = last.w => last.ret = 0

\* a non-empty view in the middle of the array compared with itself
C4_Witness ==
    /\ last.op = "compare"
    /\ last.v = last.w
    /\ last.ret = 0
    /\ size(views[last.v]) >= 1
    /\ data(views[last.v]) > BufBegin

\* C5: the sign of a.compare(b) is the opposite of the sign of
\* b.compare(a).
C5_CompareAntisymmetric ==
    last.op = "compare" =>
        LET ab == last.ret
            ba == compare(views[last.w], views[last.v])
        IN  /\ ab < 0 <=> ba > 0
            /\ ab = 0 <=> ba = 0
            /\ ab > 0 <=> ba < 0

\* a proper prefix compared with the longer view
C5_Witness ==
    /\ last.op = "compare"
    /\ last.ret < 0
    /\ 1 <= size(views[last.v])
    /\ size(views[last.v]) < size(views[last.w])
    /\ starts_with(views[last.w], views[last.v])

\* C6: if a.compare(b) <= 0 and b.compare(c) <= 0 then a.compare(c) <= 0,
\* and a.compare(c) < 0 when either premise is strict.
C6_CompareTransitive ==
    last.op = "compare" =>
        \A u \in ViewIds :
            LET ab == last.ret
                bc == compare(views[last.w], views[u])
                ac == compare(views[last.v], views[u])
            IN  ab <= 0 /\ bc <= 0 =>
                    /\ ac <= 0
                    /\ (ab < 0 \/ bc < 0) => ac < 0

\* three views of three different sizes, each a prefix of the next
C6_Witness ==
    /\ last.op = "compare"
    /\ last.ret < 0
    /\ \E u \in ViewIds :
          /\ compare(views[last.w], views[u]) < 0
          /\ 1 <= size(views[last.v])
          /\ size(views[last.v]) < size(views[last.w])
          /\ size(views[last.w]) < size(views[u])
          /\ starts_with(views[last.w], views[last.v])
          /\ starts_with(views[u], views[last.w])

\* C7: remove_prefix(k) on a view of size n leaves size n - min(k, n) and
\* the characters of the original view from index min(k, n) on; k > n
\* gives an empty view, k = 0 leaves the view unchanged.
C7_RemovePrefix ==
    last.op = "remove_prefix" =>
        LET n == size(last.pre)
            k == last.arg
            m == Min(k, n)
            view == views[last.v]
        IN  /\ size(view) = n - m
            /\ InMemory(view)
            /\ content(view) = SubSeq(content(last.pre), m + 1, n)
            /\ k > n => empty(view)
            /\ k = 0 => view = last.pre

\* more characters removed than the view has
C7_Witness ==
    /\ last.op = "remove_prefix"
    /\ size(last.pre) >= 2
    /\ last.arg > size(last.pre)
    /\ empty(views[last.v])

\* C8: v.starts_with(p) is true iff p.size() <= v.size() and the first
\* p.size() characters of v equal those of p position by position.
C8_StartsWith ==
    last.op = "starts_with" =>
        LET v == views[last.v]
            p == views[last.w]
        IN  last.ret <=>
                /\ size(p) <= size(v)
                /\ \A i \in 0..(size(p) - 1) :
                      mem[data(v) + i] = mem[data(p) + i]

\* a non-empty proper prefix
C8_Witness ==
    /\ last.op = "starts_with"
    /\ last.ret
    /\ 1 <= size(views[last.w])
    /\ size(views[last.w]) < size(views[last.v])

\* C9: v.ends_with(s) is true iff s.size() <= v.size() and the last
\* s.size() characters of v equal those of s position by position.
C9_EndsWith ==
    last.op = "ends_with" =>
        LET v == views[last.v]
            s == views[last.w]
        IN  last.ret <=>
                /\ size(s) <= size(v)
                /\ \A i \in 0..(size(s) - 1) :
                      mem[data(v) + size(v) - size(s) + i] = mem[data(s) + i]

\* a non-empty proper suffix
C9_Witness ==
    /\ last.op = "ends_with"
    /\ last.ret
    /\ 1 <= size(views[last.w])
    /\ size(views[last.w]) < size(views[last.v])

\* C10: at(position) fails exactly when position > size(); otherwise it
\* returns the character operator[] returns, the zero character at
\* position size(); the view is unchanged in both outcomes.
C10_At ==
    last.op = "at" =>
        LET view == views[last.v]
        IN  /\ last.threw <=> last.arg > size(view)
            /\ ~last.threw => last.ret = index(view, last.arg)
            /\ ~last.threw => last.ret = mem[data(view) + last.arg]
            /\ last.arg = size(view) => ~last.threw /\ last.ret = 0
            /\ view = last.pre

\* at(size()) on a non-empty view
C10_Witness ==
    /\ last.op = "at"
    /\ last.arg = size(views[last.v])
    /\ size(views[last.v]) >= 1
    /\ ~last.threw
    /\ last.ret = 0

\* two views share characters of the memory
Overlap(a, b) ==
    \E i \in 0..(size(a) - 1), j \in 0..(size(b) - 1) :
        data(a) + i = data(b) + j

\* C11: a.swap(b) and swap(a, b) leave a with b's former data and size and
\* b with a's, and leave every other view as it was, one that overlaps a's
\* or b's characters included.
C11_SwapExchanges ==
    last.op \in {"swap", "swap_free"} =>
        /\ views[last.v] = last.arg[last.w]
        /\ views[last.w] = last.arg[last.v]
        /\ \A u \in ViewIds \ {last.v, last.w} : views[u] = last.arg[u]

\* two different views are exchanged while a third view overlaps both
C11_Witness ==
    /\ last.op = "swap"
    /\ last.v # last.w
    /\ data(last.arg[last.v]) # data(last.arg[last.w])
    /\ size(last.arg[last.v]) # size(last.arg[last.w])
    /\ \E u \in ViewIds \ {last.v, last.w} :
          /\ Overlap(views[u], views[last.v])
          /\ Overlap(views[u], views[last.w])
          /\ views[u] # views[last.v]
          /\ views[u] # views[last.w]

\* C12: a default-constructed view has size() == 0, empty() == true and a
\* non-null data() that points at the terminator of the static empty
\* string.
C12_DefaultCtor ==
    last.op = "ctor_default" =>
        LET view == views[last.v]
        IN  /\ size(view) = 0
            /\ empty(view)
            /\ data(view) # data(NoView)
            /\ data(view) = EmptyString
            /\ mem[data(view)] = 0

\* the default view replaces a view of characters of the array
C12_Witness ==
    /\ last.op = "ctor_default"
    /\ size(last.pre) >= 1
    /\ empty(views[last.v])
    /\ data(views[last.v]) = EmptyString

\* C13: v.to_string() has length v.size() and the characters of v, and a
\* view constructed from that string compares equal to v.
C13_ToStringRoundTrip ==
    last.op = "to_string" =>
        LET view == views[last.v]
            string == last.ret
            again == ctor_string(string)
        IN  /\ string.size = size(view)
            /\ \A i \in 0..(size(view) - 1) :
                  mem[string.data + i] = mem[data(view) + i]
            /\ mem[string.data + string.size] = 0
            /\ data(again) # data(view)
            /\ compare(again, view) = 0
            /\ compare(view, again) = 0

\* the string of a view of two or more characters
C13_Witness ==
    /\ last.op = "to_string"
    /\ size(views[last.v]) >= 2
    /\ last.ret.size = size(views[last.v])
    /\ compare(ctor_string(last.ret), views[last.v]) = 0

\* C14: on an empty view starts_with(c) and ends_with(c) are false for
\* every character c, the zero character included; on a non-empty view
\* they are true exactly when c is the first, respectively last, character.
C14_StartsEndsWithChar ==
    /\ last.op = "starts_with_char" =>
          LET view == views[last.v]
          IN  last.ret <=>
                  size(view) >= 1 /\ mem[data(view)] = last.arg
    /\ last.op = "ends_with_char" =>
          LET view == views[last.v]
          IN  last.ret <=>
                  size(view) >= 1
                  /\ mem[data(view) + size(view) - 1] = last.arg

\* the zero character, which front() yields, on an empty view
C14_Witness ==
    /\ last.op = "starts_with_char"
    /\ empty(views[last.v])
    /\ last.arg = 0
    /\ front(views[last.v]) = 0
    /\ ~last.ret

\* C15: each relational operator returns the relation of compare() to zero
\* (x == y iff compare = 0, x != y iff compare # 0, x < y iff compare < 0,
\* and so on); the forms taking a std::basic_string or a character pointer
\* on either side return what the view-view form returns on the same
\* characters; exactly one of x < y, x == y, x > y holds.
C15_Operators ==
    last.op = "operator" =>
        LET x == views[last.v]
            y == views[last.w]
            c == compare(x, y)
            rel == last.arg[1]
            form == last.arg[2]
            expected == CASE rel = "eq" -> c = 0
                          [] rel = "ne" -> c # 0
                          [] rel = "lt" -> c < 0
                          [] rel = "gt" -> c > 0
                          [] rel = "le" -> c <= 0
                          [] rel = "ge" -> c >= 0
            holds(r) == apply(r, form, x, y)
        IN  /\ last.ret = expected
            /\ last.ret = apply(rel, "view_view", x, y)
            /\ Cardinality({r \in {"lt", "eq", "gt"} : holds(r)}) = 1

C15_Witness ==
    /\ last.op = "operator" /\ last.arg = <<"le", "pointer_view">>
    /\ last.v # last.w /\ data(views[last.v]) # data(views[last.w])
    /\ size(views[last.v]) >= 1
    /\ content(views[last.v]) = content(views[last.w])
    /\ last.ret

\* C18: a view constructed from an array of N elements has data() at the
\* first element and size() = N - 1, whatever the elements are (the size
\* comes from the array's type, not from a scan for the terminator).
C18_ArrayCtor ==
    last.op = "ctor_array" =>
        /\ data(views[last.v]) = last.arg.array
        /\ size(views[last.v]) = last.arg.Size - 1

C18_Witness ==
    /\ last.op = "ctor_array" /\ last.arg.Size = BufLen + 1
    /\ last.arg.array = BufBegin
    /\ NoEmbeddedNull(last.arg.array, last.arg.Size - 1)
    /\ views[last.v] = View(BufBegin, BufLen)
    /\ last.pre # views[last.v]

\* C19: when every view is built from a source meeting its constructor's
\* preconditions, then after any sequence of remove_prefix, swap and copy
\* no view has the zero character at a position below size().
C19_NoEmbeddedTerminator ==
    \A v \in ViewIds :
        \A i \in 0..(size(views[v]) - 1) : mem[data(views[v]) + i] # 0

C19_Witness ==
    /\ last.op = "remove_prefix"
    /\ data(views[1]) = BufBegin + 1 /\ size(views[1]) = BufLen - 1
    /\ data(views[2]) = BufBegin + 2 /\ size(views[2]) = 1
    /\ C19_NoEmbeddedTerminator

\* C20: operator<< appends to the stream exactly size() characters, the
\* characters data()[0] .. data()[size() - 1] in order; the terminator is
\* not among them and an empty view leaves the stream as it was.
C20_StreamOut ==
    last.op = "operator_out" =>
        LET view == views[last.v]
            before == last.arg
            after == last.ret
        IN  /\ Len(after) = Len(before) + size(view)
            /\ SubSeq(after, 1, Len(before)) = before
            /\ \A i \in 1..size(view) :
                  /\ after[Len(before) + i] = mem[data(view) + i - 1]
                  /\ after[Len(before) + i] # 0
            /\ empty(view) => after = before

C20_Witness ==
    /\ last.op = "operator_out" /\ last.arg = <<0, MaxChar>>
    /\ size(views[last.v]) = 1 /\ data(views[last.v]) = BufBegin
    /\ mem[BufBegin + 2] # 0
    /\ last.ret = <<0, MaxChar, mem[BufBegin]>>

\* the operations that construct or assign a view
Constructions == {"ctor_default", "ctor_pointer", "ctor_array", "copy"}

\* the operations documented to modify a view
Modifiers == {"remove_prefix", "swap", "swap_free"}

\* C16: no operation writes the viewed character storage: every character
\* that existed before a call is the same after it; apart from construction
\* and assignment only remove_prefix and swap change the data or size of a
\* view, and a call changes no view that is not its operand.
C16_ReadOnlyStorage ==
    [][/\ \A a \in DOMAIN mem : a \in DOMAIN mem' /\ mem'[a] = mem[a]
       /\ views' # views => last'.op \in Constructions \cup Modifiers
       /\ \A u \in ViewIds :
             views'[u] # views[u] => u \in {last'.v, last'.w}]_vars

C16_Witness ==
    /\ last.op = "to_string" /\ size(views[last.v]) = BufLen
    /\ views[last.v] = last.pre
    /\ DOMAIN mem # Addresses
    /\ \A i \in 0..BufLen : mem[HeapBegin + i] = mem[BufBegin + i]

\* C17: threads that each work on their own views of one shared buffer get,
\* in every interleaving of the single reads and writes of their calls,
\* the results and the views they get when running alone (the results of
\* the same calls made one after the other on the thread's views only),
\* and the shared buffer keeps the characters it had at the start.
C17_ThreadsIndependent ==
    /\ mem = last.buffer
    /\ \A t \in Threads :
          last.thread[t].pc = "idle" =>
              /\ last.thread[t].ret = last.thread[t].expected
              /\ \A k \in Own : views[<<t, k>>] = last.thread[t].alone[k]

C17_Witness ==
    /\ last.thread[1].pc = "idle" /\ last.thread[2].pc = "swap_size_local"
    /\ last.thread[1].ret = 1 /\ last.thread[1].expected = 1
    /\ size(views[<<1, 1>>]) = BufLen - 1 /\ size(views[<<1, 2>>]) = 1
    /\ size(views[<<2, 1>>]) = 0 /\ size(views[<<2, 2>>]) = BufLen
    /\ data(views[<<2, 1>>]) # data(views[<<2, 2>>])

\* C27: end() - begin() = size(); iterating from begin() to end() reads
\* v[0], ..., v[size() - 1] in this order, iterating from rbegin() to
\* rend() reads the same characters in the opposite order; for an empty
\* view begin() = end() and rbegin() = rend().
C27_Iteration ==
    LET view == views[last.v]
        chars == [i \in 1..size(view) |-> index(view, i - 1)]
    IN  /\ last.op = "forward" =>
              /\ last.arg = size(view)
              /\ last.ret = chars
              /\ empty(view) => begin(view) = end(view)
        /\ last.op = "reverse" =>
              /\ last.arg = size(view)
              /\ Len(last.ret) = size(view)
              /\ \A i \in 1..size(view) :
                    last.ret[i] = chars[size(view) + 1 - i]
              /\ empty(view) => rbegin(view) = rend(view)

C27_Witness ==
    /\ last.op = "reverse" /\ size(views[last.v]) = BufLen
    /\ last.ret[1] # last.ret[BufLen]
    /\ last.ret[1] = back(views[last.v])
    /\ last.ret[BufLen] = front(views[last.v])

\* C28: no remove_prefix call, whatever its argument, moves the end of a
\* view: data() + size() keeps its value, size() does not grow and does not
\* fall below zero, and the start only moves forward, so that after any
\* sequence of calls the view is a suffix of the range it had at first.
C28_EndStays ==
    [][\A v \in ViewIds :
          /\ data(views'[v]) + size(views'[v]) = data(views[v]) + size(views[v])
          /\ size(views'[v]) <= size(views[v])
          /\ size(views'[v]) >= 0
          /\ data(views'[v]) >= data(views[v])]_vars

\* a third call, asking for more than is left of a view already shortened
C28_Witness ==
    /\ last.op = "remove_prefix" /\ last.ret = MaxCalls
    /\ last.v = 1 /\ views[2] = ctor_pointer(BufBegin)
    /\ size(views[2]) = BufLen
    /\ data(last.pre) = BufBegin + 1 /\ size(last.pre) = BufLen - 1
    /\ last.arg > size(last.pre)
    /\ views[1] = View(MemEnd, 0)

\* C21: the continuation is not invoked before the input future is ready;
\* it is invoked at most once, on the launched thread, with the value the
\* future holds (with no argument for a void future); when the future
\* holds a value, the task ends with exactly one invocation and the
\* returned future holds the continuation's result, and once then has been
\* called on a future holding a value the returned future eventually
\* becomes ready.
C21_Expected ==
    invoke(async.continuation,
           IF async.Ty = "void" THEN << >> ELSE <<async.future.value>>)

C21_Safety ==
    /\ Len(async.invocations) <= 1
    /\ \A i \in 1..Len(async.invocations) :
          LET call == async.invocations[i]
          IN  /\ ready(call.future)
              /\ call.thread = "launched"
              /\ call.args = IF async.Ty = "void" THEN << >>
                                                   ELSE <<call.future.value>>
    /\ async.pc = "done" /\ async.future.kind = "value" =>
          /\ Len(async.invocations) = 1
          /\ async.result = C21_Expected

C21_Then ==
    /\ []C21_Safety
    /\ (async.pc # "caller" /\ async.future.kind = "value")
           ~> (ready(async.result) /\ async.result = C21_Expected)

C21_Witness ==
    /\ async.pc = "done" /\ async.Ty = "int"
    /\ async.continuation = "increment"
    /\ async.future = Value(MaxValue)
    /\ async.invocations = <<[thread |-> "launched", args |-> <<MaxValue>>,
                               future |-> Value(MaxValue)]>>
    /\ async.result = Value(MaxValue + 1)

\* C29: when the input future holds a stored exception, the continuation
\* is not invoked and the returned future hands that exception to its
\* consumer, for value-carrying futures and for std::future<void>.
C29_ExceptionPropagates ==
    async.future.kind = "exception" =>
        /\ async.invocations = << >>
        /\ ready(async.result) => async.result = async.future
        /\ ready(async.consumer) => async.consumer = async.future

\* C22: the construction of PrintBytesAsHex fails with
\* pl::NullPointerException when dataToPrint is null, with
\* pl::InvalidSizeException when countBytes is 0 (and the pointer is not
\* null), and succeeds with a non-null pointer and a non-zero count.
C22_Construct ==
    stream.pc # "construct" =>
        /\ stream.m_dataToPrint = 0 =>
              stream.pc = "failed"
              /\ stream.exception = "NullPointerException"
        /\ stream.m_dataToPrint # 0 /\ stream.m_countBytes = 0 =>
              stream.pc = "failed"
              /\ stream.exception = "InvalidSizeException"
        /\ stream.m_dataToPrint # 0 /\ stream.m_countBytes # 0 =>
              stream.pc # "failed"

C22_Witness ==
    /\ stream.pc = "failed" /\ stream.exception = "InvalidSizeException"
    /\ stream.m_dataToPrint = 1 /\ stream.m_countBytes = 0

\* the two uppercase hexadecimal digits of a byte
TwoDigits(byte) ==
    <<UpperDigits[(byte \div 16) + 1], UpperDigits[(byte % 16) + 1]>>

\* the first n bytes from the address m_dataToPrint as pairs of digits
\* with the delimiter between them
RECURSIVE HexDump(_)
HexDump(n) ==
    IF n = 1
    THEN TwoDigits(stream.memory[stream.m_dataToPrint])
    ELSE HexDump(n - 1) \o stream.m_delim
            \o TwoDigits(stream.memory[stream.m_dataToPrint + n - 1])

\* C23: printing n bytes writes, for each byte in address order, exactly
\* two uppercase zero-padded hexadecimal digits, and the delimiter between
\* consecutive bytes only (n - 1 delimiters, none first, none last); this
\* is what a stream that took every write, and so is still good, has
\* received.
C23_HexOutput ==
    stream.pc = "returned" /\ good(stream) =>
        stream.out = HexDump(stream.m_countBytes)

\* C24: when operator<< is over, by return or by an exception thrown by a
\* write and rethrown, the stream's format flags are those it had before
\* the call.
C24_FlagsRestored ==
    /\ stream.pc \in {"returned", "rethrown"} =>
          stream.flags = stream.before.flags
    /\ stream.pc = "rethrown" => stream.exception # "none"

\* a write throws after a byte and a delimiter went out in uppercase hex
\* on a stream that was in lowercase decimal
C24_Witness ==
    /\ stream.pc = "rethrown" /\ stream.i = 1
    /\ stream.out = <<"A", "B", " ">>
    /\ ~stream.before.flags.uppercase
    /\ stream.before.flags.basefield = "dec"
    /\ stream.flags = stream.before.flags

\* C30: operator<< leaves the whole formatting state as it found it: the
\* format flags, the fill character and the field width.
C30_FormattingState ==
    stream.pc \in {"returned", "rethrown"} =>
        /\ stream.flags = stream.before.flags
        /\ stream.fill = stream.before.fill
        /\ stream.width = stream.before.width

\* the positions of the bits set in a value of the underlying type
BitsOf(value) ==
    {i \in 0..(UnderlyingBits - 1) : (value \div (2^i)) % 2 = 1}

SingleBits == {2^i : i \in 0..(UnderlyingBits - 1)}

\* C25: |, &, ^ and ~ return the enum value whose underlying integer is
\* the bitwise operation on the operands' underlying integers, within the
\* underlying type's width; |=, &= and ^= store that result in the left
\* operand and return it; for distinct single-bit flags A and B, (A | B)
\* after &= ~A is exactly B.
C25_Bitmask ==
    /\ mask.ret \in ScopedEnum /\ mask.enm \in ScopedEnum
    /\ mask.op \in {"|", "|="} =>
          BitsOf(mask.ret) = BitsOf(mask.lhs) \cup BitsOf(mask.rhs)
    /\ mask.op \in {"&", "&="} =>
          BitsOf(mask.ret) = BitsOf(mask.lhs) \cap BitsOf(mask.rhs)
    /\ mask.op \in {"^", "^="} =>
          BitsOf(mask.ret) = (BitsOf(mask.lhs) \cup BitsOf(mask.rhs))
                                \ (BitsOf(mask.lhs) \cap BitsOf(mask.rhs))
    /\ mask.op = "~" =>
          BitsOf(mask.ret) = (0..(UnderlyingBits - 1)) \ BitsOf(mask.lhs)
    /\ mask.op \in {"|=", "&=", "^="} => mask.enm = mask.ret
    /\ \A A, B \in SingleBits :
          A # B =>
              operator_and_assign(operator_or(A, B), operator_not(A))
                  = <<B, B>>

\* enm held A | B and enm &= ~A has left exactly B
C25_Witness ==
    /\ mask.op = "&=" /\ mask.lhs = 3 /\ mask.rhs = operator_not(1)
    /\ mask.enm = 2 /\ mask.ret = 2

\* C26: forEachArgument(callable, a1, ..., an) calls callable with a1, a2,
\* ..., an in this order, one argument per call, each call ending before
\* the next begins; when it returns, callable has been called exactly n
\* times; with no arguments callable is never called.
C26_ForEachArgument ==
    LET log == each.log
        begun == (Len(log) + 1) \div 2
    IN  /\ \A k \in 1..Len(log) :
              /\ log[k].event = IF k % 2 = 1 THEN "begin" ELSE "end"
              /\ log[k].arg = each.args[(k + 1) \div 2]
        /\ begun <= Len(each.args)
        /\ each.pc = "returned" => Len(log) = 2 * Len(each.args)
        /\ each.args = << >> => log = << >>

C26_Witness ==
    /\ each.pc = "returned" /\ each.args = <<"c", "a", "c">>
    /\ Len(each.log) = 2 * MaxArgs
    /\ each.log[1] = [event |-> "begin", arg |-> "c"]
    /\ each.log[4] = [event |-> "end", arg |-> "a"]

====
